---- MODULE Spec2Model ----
(***************************************************************************)
(* Breakout scanner (Start Your Own/Trading_Script.py) and bracket-order   *)
(* router (automation/order_router.py).                                    *)
(*                                                                         *)
(* Units: prices are integers in mills (1/1000 dollar), equity is in whole *)
(* dollars, the risk and position fractions are in basis points (1/10000). *)
(* A quotient of dollars by a price is then  bp * equity / (10 * mills).   *)
(***************************************************************************)
EXTENDS Integers, Sequences, FiniteSets, TLC

(* ------------------------------ bounds -------------------------------- *)

\* Largest number of data rows in signals.csv.
MaxRows == 3
\* Largest configured MAX_OPEN_NAMES.
MaxCap == 2
\* Largest number of symbols in the scanner's universe.
MaxUniverse == 2

(* ----------------------- order_router.py: state ----------------------- *)

VARIABLES
    pc,              \* position of the router's main(): start, loop, row, done, fatal
    ALPACA_KEY,      \* env ALPACA_API_KEY ("" when unset)
    ALPACA_SECRET,   \* env ALPACA_SECRET_KEY ("" when unset)
    ACCOUNT_EQUITY,  \* env ACCOUNT_EQUITY ("" when unset)
    MAX_OPEN_NAMES,  \* env MAX_OPEN_NAMES
    ALLOW_SHORTS,    \* env ALLOW_SHORTS
    csv_exists,      \* os.path.exists(CSV_PATH)
    nrows,           \* number of data rows in the signal file
    equity,          \* main's local equity
    init_open,       \* what get_open_symbols() returned
    open_syms,       \* main's local open_syms
    placed,          \* main's local placed: <<sym, qty, side>> (the order id is opaque)
    i,               \* rows taken from the file so far
    cur,             \* the row the loop body is about to process (NoRow otherwise)
    reason,          \* what the last loop body printed for its row
    sent,            \* POST /v2/orders requests made by the last loop body
    broker_calls     \* kinds of broker requests made so far in this run

routerVars == <<pc, ALPACA_KEY, ALPACA_SECRET, ACCOUNT_EQUITY, MAX_OPEN_NAMES,
                ALLOW_SHORTS, csv_exists, nrows, equity, init_open, open_syms,
                placed, i, cur, reason, sent, broker_calls>>

(* ----------------------- Trading_Script.py: state --------------------- *)

VARIABLES
    spc,        \* position of the scanner's main(): scan, fetched, written
    universe,   \* len(load_universe())
    k,          \* symbols fetched so far
    df,         \* what fetch_daily returned for the current symbol (NoFrame otherwise)
    skip,       \* the [SKIP] reason printed for the last symbol, or "buy"
    evald,      \* the qualification stages evaluated for the last symbol, in order
    out_rows,   \* main's local rows
    files       \* the rows written to signals.csv and buy_signals.csv

scanVars == <<spc, universe, k, df, skip, evald, out_rows, files>>

(* ------------------------- sizing functions: state -------------------- *)

VARIABLES
    sz_in,      \* the arguments of one sizing
    sz_out      \* what size_shares and the router's sizing make of them

sizeVars == <<sz_in, sz_out>>

vars == <<routerVars, scanVars, sizeVars>>

(* ------------------------ values and conversions ---------------------- *)

\* csv.DictReader's value for a field the row does not have.
NONE == "<None>"

Max(a, b) == IF a >= b THEN a ELSE b
Min(a, b) == IF a <= b THEN a ELSE b

\* A parsed float: ok = FALSE when float() raises, nan = TRUE for NaN.
Num(n) == [ok |-> TRUE, nan |-> FALSE, v |-> n]
NaN == [ok |-> TRUE, nan |-> TRUE, v |-> 0]
Bad == [ok |-> FALSE, nan |-> FALSE, v |-> 0]

\* float(x) on the field texts the model feeds the router.
ParseFloat(s) ==
    CASE s = "0"     -> Num(0)
      [] s = "-1.00" -> Num(-1000)
      [] s = "9.00"  -> Num(9000)
      [] s = "10.00" -> Num(10000)
      [] s = "11.00" -> Num(11000)
      [] s = "12.00" -> Num(12000)
      [] s = "100"   -> Num(100)
      [] s = "2000"  -> Num(2000)
      [] s = "nan"   -> NaN
      [] OTHER       -> Bad   \* "", "abc", "x", None: ValueError or TypeError

\* str.upper() and str.strip() on the symbol and side texts of the model.
Upper(s) ==
    CASE s = "aa"   -> "AA"
      [] s = "aa "  -> "AA "
      [] s = "buy"  -> "BUY"
      [] s = "sell" -> "SELL"
      [] s = "hold" -> "HOLD"
      [] OTHER      -> s
Strip(s) ==
    CASE s = " "   -> ""
      [] s = "AA " -> "AA"
      [] OTHER     -> s

\* x < 0, x <= 0 on floats: every comparison with NaN is False.
LeZero(x) == ~x.nan /\ x.v <= 0
\* a - b on floats.
Sub(a, b) == IF a.nan \/ b.nan THEN NaN ELSE Num(a.v - b.v)

(* ------------------------------ inputs -------------------------------- *)

RawSymbols == {" ", "aa ", "BB"}
\* "" is a blank cell: the row gives no side.
RawSides == {"", "buy", "sell", "hold"}
\* <<entry, stop, target>> texts: a valid long, a valid short, and rows with
\* a field that is unparseable, NaN, zero or negative.
RawPrices == {
    <<"10.00", "9.00", "12.00">>,
    <<"10.00", "11.00", "9.00">>,
    <<"abc", "9.00", "12.00">>,
    <<"nan", "9.00", "12.00">>,
    <<"0", "9.00", "12.00">>,
    <<"10.00", "", "12.00">>,
    <<"10.00", "nan", "12.00">>,
    <<"10.00", "-1.00", "12.00">>,
    <<"10.00", "9.00", "x">>,
    <<"10.00", "9.00", "0">>,
    <<"nan", "0", "12.00">> }
Rows == { [symbol |-> s, side |-> d, entry |-> p[1], stop |-> p[2], target |-> p[3]] :
            s \in RawSymbols, d \in RawSides, p \in RawPrices }
NoRow == [symbol |-> NONE, side |-> NONE, entry |-> NONE, stop |-> NONE, target |-> NONE]

\* The lists of positions GET /v2/positions can answer (the symbols as the
\* broker spells them); it can also answer a non-2xx status, or fail.
PositionLists == {{}, {"aa"}, {"aa", "CC"}}
\* What GET /v2/account can answer: an error, or an equity in dollars.
EquityAnswers == {100, 2000}
EnvEquity == {"", "100"}

(* -------------------- order_router.py: configuration ------------------ *)

\* RISK_PCT_PER_TRADE, default 0.005, in basis points.
Router_RISK_PCT == 50
\* MAX_POS_PCT, default 0.10, in basis points.
Router_MAX_POS_PCT == 1000

(* ------------------- order_router.py: the loop body ------------------- *)

\* sym = (r.get("symbol") or "").upper().strip()
SymOf(r) == IF r.symbol = NONE \/ r.symbol = "" THEN "" ELSE Strip(Upper(r.symbol))
\* side = (r.get("side") or "BUY").upper().strip()
SideOf(r) == IF r.side = NONE \/ r.side = "" THEN "BUY" ELSE Strip(Upper(r.side))

\* the try block around the three float() calls
BadNumeric(r) ==
    ~ParseFloat(r.entry).ok \/ ~ParseFloat(r.stop).ok \/ ~ParseFloat(r.target).ok

\* if not sym or entry <= 0 or stop <= 0 or target <= 0
Incomplete_NoStopCheck(sym, entry, stop, target) ==
    sym = "" \/ LeZero(entry) \/ LeZero(target)
Incomplete(sym, entry, stop, target) ==
    sym = "" \/ LeZero(entry) \/ LeZero(stop) \/ LeZero(target)

\* if side not in ("BUY","SELL")
InvalidSide(side) == side \notin {"BUY", "SELL"}

\* if side == "SELL" and not ALLOW_SHORTS
ShortingDisabled_Never(side, allow) == FALSE
ShortingDisabled(side, allow) == side = "SELL" /\ ~allow

\* if sym in open_syms
AlreadyOpen(sym, open) == sym \in open

\* if len(open_syms) >= MAX_OPEN_NAMES
CapacityReached_OffByOne(open, max) == Cardinality(open) > max
CapacityReached(open, max) == Cardinality(open) >= max

\* per_share_risk = entry - stop if side=="BUY" else stop - entry
per_share_risk(side, entry, stop) ==
    IF side = "BUY" THEN Sub(entry, stop) ELSE Sub(stop, entry)

\* qty = math.floor(max(0, risk_dollars / per_share_risk)), for a risk > 0;
\* max(0, nan) is 0.
QtyByRisk(psr, eq, riskBp) ==
    IF psr.nan THEN 0
    ELSE IF riskBp * eq <= 0 THEN 0
    ELSE (riskBp * eq) \div (10 * psr.v)
\* max_qty_by_value = math.floor((MAX_POS_PCT * equity) / entry), for an
\* entry > 0 that is a number.
MaxQtyByValue(entry, eq, maxPosBp) == (maxPosBp * eq) \div (10 * entry.v)
\* qty = max(0, min(qty, max_qty_by_value))
RouterQty(psr, entry, eq, riskBp, maxPosBp) ==
    Max(0, Min(QtyByRisk(psr, eq, riskBp), MaxQtyByValue(entry, eq, maxPosBp)))

\* Lines 95-104: what the body does with a row that passed the checks above.
Sizing(side, entry, stop, eq, riskBp, maxPosBp) ==
    LET psr == per_share_risk(side, entry, stop)
    IN  IF LeZero(psr) THEN "non-positive risk"
        ELSE IF entry.nan THEN "crash"       \* math.floor(nan): ValueError, not caught
        ELSE IF RouterQty(psr, entry, eq, riskBp, maxPosBp) = 0 THEN "sized to 0"
        ELSE "submit"

\* The decision of the loop body for row r, lines 75-104, in the code's order.
Decide(r, open, eq, max, allow) ==
    LET sym    == SymOf(r)
        side   == SideOf(r)
        entry  == ParseFloat(r.entry)
        stop   == ParseFloat(r.stop)
        target == ParseFloat(r.target)
    IN  IF BadNumeric(r) THEN "bad numeric"
        ELSE IF Incomplete(sym, entry, stop, target) THEN "incomplete"
        ELSE IF InvalidSide(side) THEN "invalid side"
        ELSE IF ShortingDisabled(side, allow) THEN "shorting disabled"
        ELSE IF AlreadyOpen(sym, open) THEN "already open"
        ELSE IF CapacityReached(open, max) THEN "max open names"
        ELSE Sizing(side, entry, stop, eq, Router_RISK_PCT, Router_MAX_POS_PCT)

\* The quantity the body submits for row r.
QtyOf(r, eq) ==
    LET entry == ParseFloat(r.entry)
        psr   == per_share_risk(SideOf(r), entry, ParseFloat(r.stop))
    IN  RouterQty(psr, entry, eq, Router_RISK_PCT, Router_MAX_POS_PCT)

\* submit_bracket: the POST requests one call makes (one, whatever the answer).
submit_bracket(sym, qty, side, ok) ==
    << [symbol |-> sym, qty |-> qty, side |-> side] >>

\* open_syms.add(sym), reached only when submit_bracket returned.
OpenAfter_Forget(open, sym, ok) == open
OpenAfter_Always(open, sym, ok) == open \cup {sym}
OpenAfter(open, sym, ok) == IF ok THEN open \cup {sym} ELSE open

\* placed.append((sym, qty, side, resp.get("id"))), same.
PlacedAfter(pl, sym, qty, side, ok) ==
    IF ok THEN Append(pl, <<sym, qty, side>>) ELSE pl

\* break (max open names) against continue.
Halts_Never(why) == FALSE
Halts(why) == why = "max open names"

(* ------------------ order_router.py: main(), __main__ ----------------- *)

\* assert ALPACA_KEY and ALPACA_SECRET
CredentialsPresent_Either(key, secret) == key # "" \/ secret # ""
CredentialsPresent(key, secret) == key # "" /\ secret # ""

\* The router reads neither the scanner's memory nor anybody's sizing.
NoFrame == [present |-> FALSE, n |-> 0, close |-> 0, adv |-> 0, prev_close |-> 0,
            open |-> 0, hi20_before |-> 0, sma50 |-> 0, rsi |-> Num(0),
            atr |-> Num(0)]
ScanIdle ==
    /\ spc = "idle" /\ universe = 0 /\ k = 0 /\ df = NoFrame /\ skip = "none"
    /\ evald = <<>> /\ out_rows = <<>> /\ files = <<>>
NoSizing == [side |-> "BUY", entry |-> 0, stop |-> 0, equity |-> 0, risk |-> 0, cap |-> 0]
SizeIdle ==
    /\ sz_in = NoSizing
    /\ sz_out = [done |-> FALSE, shares |-> 0, why |-> "none", qty |-> 0]
RouterIdle ==
    /\ pc = "idle" /\ ALPACA_KEY = "" /\ ALPACA_SECRET = "" /\ ACCOUNT_EQUITY = ""
    /\ MAX_OPEN_NAMES = 0 /\ ALLOW_SHORTS = FALSE /\ csv_exists = FALSE /\ nrows = 0
    /\ equity = 0 /\ init_open = {} /\ open_syms = {} /\ placed = <<>> /\ i = 0
    /\ cur = NoRow /\ reason = "none" /\ sent = <<>> /\ broker_calls = {}

RouterInit ==
    /\ pc = "start"
    /\ ALPACA_KEY \in {"", "key"}
    /\ ALPACA_SECRET \in {"", "secret"}
    /\ ACCOUNT_EQUITY \in EnvEquity
    /\ MAX_OPEN_NAMES \in 0..MaxCap
    /\ ALLOW_SHORTS \in BOOLEAN
    /\ csv_exists \in BOOLEAN
    /\ nrows \in 0..MaxRows
    /\ (~csv_exists => nrows = 0)
    /\ equity = 0
    /\ init_open = {}
    /\ open_syms = {}
    /\ placed = <<>>
    /\ i = 0
    /\ cur = NoRow
    /\ reason = "none"
    /\ sent = <<>>
    /\ broker_calls = {}
    /\ ScanIdle
    /\ SizeIdle

\* Line 60: the assertion fails; __main__ prints "Fatal" and exits with 1.
MissingCredentials ==
    /\ pc = "start"
    /\ ~CredentialsPresent(ALPACA_KEY, ALPACA_SECRET)
    /\ pc' = "fatal"
    /\ UNCHANGED <<scanVars, sizeVars>>
    /\ UNCHANGED <<ALPACA_KEY, ALPACA_SECRET, ACCOUNT_EQUITY, MAX_OPEN_NAMES,
                   ALLOW_SHORTS, csv_exists, nrows, equity, init_open, open_syms,
                   placed, i, cur, reason, sent, broker_calls>>

\* Lines 61-67: no file, or no data row: return (exit status 0).
NothingToTrade ==
    /\ pc = "start"
    /\ CredentialsPresent(ALPACA_KEY, ALPACA_SECRET)
    /\ ~csv_exists \/ nrows = 0
    /\ pc' = "done"
    /\ UNCHANGED <<scanVars, sizeVars>>
    /\ UNCHANGED <<ALPACA_KEY, ALPACA_SECRET, ACCOUNT_EQUITY, MAX_OPEN_NAMES,
                   ALLOW_SHORTS, csv_exists, nrows, equity, init_open, open_syms,
                   placed, i, cur, reason, sent, broker_calls>>

\* get_equity(): the override, or GET /v2/account.
get_equity_calls(env) == IF env # "" THEN {} ELSE {"account"}

\* get_open_symbols() on a list of positions.
get_open_symbols(list) == { Upper(s) : s \in list }

\* Line 69: GET /v2/account fails (raise_for_status or a transport error).
EquityFails ==
    /\ pc = "start"
    /\ CredentialsPresent(ALPACA_KEY, ALPACA_SECRET)
    /\ csv_exists /\ nrows > 0
    /\ ACCOUNT_EQUITY = ""
    /\ pc' = "fatal"
    /\ broker_calls' = broker_calls \cup {"account"}
    /\ UNCHANGED <<scanVars, sizeVars>>
    /\ UNCHANGED <<ALPACA_KEY, ALPACA_SECRET, ACCOUNT_EQUITY, MAX_OPEN_NAMES,
                   ALLOW_SHORTS, csv_exists, nrows, equity, init_open, open_syms,
                   placed, i, cur, reason, sent>>

\* Lines 69-70: equity known; GET /v2/positions raises (transport error).
PositionsFail ==
    /\ pc = "start"
    /\ CredentialsPresent(ALPACA_KEY, ALPACA_SECRET)
    /\ csv_exists /\ nrows > 0
    /\ \E eq \in EquityAnswers :
         equity' = IF ACCOUNT_EQUITY # "" THEN ParseFloat(ACCOUNT_EQUITY).v ELSE eq
    /\ pc' = "fatal"
    /\ broker_calls' = broker_calls \cup get_equity_calls(ACCOUNT_EQUITY) \cup {"positions"}
    /\ UNCHANGED <<scanVars, sizeVars>>
    /\ UNCHANGED <<ALPACA_KEY, ALPACA_SECRET, ACCOUNT_EQUITY, MAX_OPEN_NAMES,
                   ALLOW_SHORTS, csv_exists, nrows, init_open, open_syms,
                   placed, i, cur, reason, sent>>

\* Lines 69-73: equity and open symbols fetched; the loop starts.
Setup ==
    /\ pc = "start"
    /\ CredentialsPresent(ALPACA_KEY, ALPACA_SECRET)
    /\ csv_exists /\ nrows > 0
    /\ \E eq \in EquityAnswers :
         equity' = IF ACCOUNT_EQUITY # "" THEN ParseFloat(ACCOUNT_EQUITY).v ELSE eq
    /\ \E r_ok \in BOOLEAN, list \in PositionLists :
         init_open' = IF r_ok THEN get_open_symbols(list) ELSE {}
    /\ open_syms' = init_open'
    /\ placed' = <<>>
    /\ pc' = "loop"
    /\ broker_calls' = broker_calls \cup get_equity_calls(ACCOUNT_EQUITY) \cup {"positions"}
    /\ UNCHANGED <<scanVars, sizeVars>>
    /\ UNCHANGED <<ALPACA_KEY, ALPACA_SECRET, ACCOUNT_EQUITY, MAX_OPEN_NAMES,
                   ALLOW_SHORTS, csv_exists, nrows, i, cur, reason, sent>>

\* for r in rows: the next row of the file.
NextRow ==
    /\ pc = "loop"
    /\ i < nrows
    /\ \E r \in Rows : cur' = r
    /\ i' = i + 1
    /\ reason' = "none"
    /\ sent' = <<>>
    /\ pc' = "row"
    /\ UNCHANGED <<scanVars, sizeVars>>
    /\ UNCHANGED <<ALPACA_KEY, ALPACA_SECRET, ACCOUNT_EQUITY, MAX_OPEN_NAMES,
                   ALLOW_SHORTS, csv_exists, nrows, equity, init_open, open_syms,
                   placed, broker_calls>>

\* Lines 75-113: the loop body on the current row; ok is the broker's answer
\* to the order, should the body submit one.
RouteRow ==
    /\ pc = "row"
    /\ \E ok \in BOOLEAN :
        LET why  == Decide(cur, open_syms, equity, MAX_OPEN_NAMES, ALLOW_SHORTS)
            sym  == SymOf(cur)
            side == SideOf(cur)
            qty  == QtyOf(cur, equity)
        IN  IF why = "submit"
            THEN /\ sent' = submit_bracket(sym, qty, side, ok)
                 /\ broker_calls' = broker_calls \cup {"orders"}
                 /\ placed' = PlacedAfter(placed, sym, qty, side, ok)
                 /\ open_syms' = OpenAfter(open_syms, sym, ok)
                 /\ reason' = IF ok THEN "placed" ELSE "order failed"
                 /\ pc' = "loop"
            ELSE /\ ok
                 /\ sent' = <<>>
                 /\ reason' = why
                 /\ pc' = IF why = "crash" THEN "fatal"
                          ELSE IF Halts(why) THEN "done" ELSE "loop"
                 /\ UNCHANGED <<broker_calls, placed, open_syms>>
    /\ cur' = NoRow
    /\ UNCHANGED <<scanVars, sizeVars>>
    /\ UNCHANGED <<ALPACA_KEY, ALPACA_SECRET, ACCOUNT_EQUITY, MAX_OPEN_NAMES,
                   ALLOW_SHORTS, csv_exists, nrows, equity, init_open, i>>

\* Lines 115-120: the rows are exhausted; the summary is printed.
Summary ==
    /\ pc = "loop"
    /\ i = nrows
    /\ pc' = "done"
    /\ UNCHANGED <<scanVars, sizeVars>>
    /\ UNCHANGED <<ALPACA_KEY, ALPACA_SECRET, ACCOUNT_EQUITY, MAX_OPEN_NAMES,
                   ALLOW_SHORTS, csv_exists, nrows, equity, init_open, open_syms,
                   placed, i, cur, reason, sent, broker_calls>>

RouterNext ==
    \/ MissingCredentials
    \/ NothingToTrade
    \/ EquityFails
    \/ PositionsFail
    \/ Setup
    \/ NextRow
    \/ RouteRow
    \/ Summary

SpecRouter == RouterInit /\ [][RouterNext]_vars

(* ------------------- Trading_Script.py: configuration ----------------- *)

\* ACCOUNT_EQUITY, default 2000 dollars.
EQUITY == 2000
\* RISK_PCT, default 0.01, in basis points.
RISK_PCT == 100
\* MAX_POS_PCT, default 0.25, in basis points.
MAX_POS_PCT == 2500
\* MIN_PRICE, default 1.0, in mills.
MIN_PRICE == 1000
\* MIN_ADV_USD, default 300000 dollars.
MIN_ADV_USD == 300000
\* The bars main() asks for before it looks at a symbol.
MIN_BARS == 60

(* ---------------------- Trading_Script.py: helpers -------------------- *)

\* size_shares(entry, stop), with the module's EQUITY, RISK_PCT and
\* MAX_POS_PCT as arguments.
size_shares_NoCap(entry, stop, eq, riskBp, maxPosBp) ==
    IF entry <= 0 \/ stop >= entry THEN 0
    ELSE Max(0, (eq * riskBp) \div (10 * (entry - stop)))
size_shares(entry, stop, eq, riskBp, maxPosBp) ==
    IF entry <= 0 \/ stop >= entry THEN 0
    ELSE LET risk_x10  == eq * riskBp             \* risk_dollars, times 10000
             stop_dist == entry - stop
         IN  IF stop_dist <= 0 THEN 0
             ELSE LET by_risk == risk_x10 \div (10 * stop_dist)
                      by_cap  == (eq * maxPosBp) \div (10 * entry)
                  IN  Max(0, Min(by_risk, by_cap))

\* round(x, 2) of a price in mills. Python rounds the binary float that is
\* nearest to the decimal: a value ending in 5 mills is not that float, and
\* goes either way.
Round2(m) ==
    LET lo == (m \div 10) * 10
        r  == m - lo
    IN  IF r < 5 THEN {lo} ELSE IF r > 5 THEN {lo + 10} ELSE {lo, lo + 10}

\* fetch_daily(sym) as the features the filters read: present = FALSE is
\* None (an exception, an empty or a malformed frame); n = len(df) after
\* dropna(); close, prev_close, open in mills; adv = mean of close*volume
\* over the last 20 bars, in dollars; hi20_before = the highest close of the
\* 19 bars before the last (the previous close is one of them); sma50 in
\* mills; rsi and atr the last values of rsi14 and atr14 (rsi is NaN when
\* the average loss is 0). The previous close is 10% under the close, the
\* open is at the previous close or 25% above it.
Frame(n, close, gap_pct, hi_above, sma_above, rsi, atr, adv) ==
    LET prev == (9 * close) \div 10
    IN  [ present |-> TRUE, n |-> n, close |-> close, adv |-> adv,
          prev_close |-> prev, open |-> prev + (prev * gap_pct) \div 100,
          hi20_before |-> IF hi_above THEN 2 * close ELSE prev,
          sma50 |-> IF sma_above THEN 2 * close ELSE prev \div 2,
          rsi |-> rsi, atr |-> atr ]
Frames ==
    {NoFrame} \cup
    { Frame(n, c, g, h, m, r, a, v) :
        n \in {59, MIN_BARS}, c \in {500, 1000, 10004, 10005, 600000},
        g \in {0, 25}, h \in BOOLEAN, m \in BOOLEAN,
        r \in {NaN, Num(60), Num(80)},
        a \in {Num(0), Num(1), Num(500), Num(600)},
        v \in {200000, 300000} }

\* df is None or len(df) < 60
InsufficientData_OffByOne(d) == ~d.present \/ d.n < MIN_BARS - 1
InsufficientData(d) == ~d.present \/ d.n < MIN_BARS

passes_liquidity(d) ==
    IF d.close < MIN_PRICE THEN FALSE
    ELSE IF d.adv < MIN_ADV_USD THEN FALSE
    ELSE TRUE

\* abs(today_open/prev_close - 1.0) < 0.20, away from the boundary
gap_spike_ok(d) ==
    IF d.n < 2 THEN TRUE
    ELSE IF d.prev_close <= 0 THEN TRUE
    ELSE LET diff == IF d.open >= d.prev_close THEN d.open - d.prev_close
                     ELSE d.prev_close - d.open
         IN  5 * diff < d.prev_close

breakout_signal(d) ==
    IF d.n < 60 THEN FALSE
    ELSE LET hi20       == Max(d.close, d.hi20_before)
             cond_break == d.close >= hi20      \* the 1e-8 slack is below a mill
             cond_trend == d.close > d.sma50
             cond_rsi   == ~d.rsi.nan /\ 50 <= d.rsi.v /\ d.rsi.v <= 70
         IN  cond_break /\ cond_trend /\ cond_rsi

\* Lines 133-144: the stages main() evaluates for a frame, in order, and
\* the stage that rejected it ("none" when all passed).
Qualify(d) ==
    IF InsufficientData(d)
    THEN [evald |-> <<"history">>, skip |-> "insufficient data"]
    ELSE IF ~passes_liquidity(d)
    THEN [evald |-> <<"history", "liquidity">>, skip |-> "liquidity"]
    ELSE IF ~gap_spike_ok(d)
    THEN [evald |-> <<"history", "liquidity", "gap">>, skip |-> "gap"]
    ELSE IF ~breakout_signal(d)
    THEN [evald |-> <<"history", "liquidity", "gap", "breakout">>, skip |-> "no breakout"]
    ELSE [evald |-> <<"history", "liquidity", "gap", "breakout">>, skip |-> "none"]

\* Lines 146-161: the rows main() can build from a qualified frame; a
\* skip reason stands for no row.
StopTooHigh(stop, entry) == stop >= entry

\* Lines 154-175 for a stop and a target as line 152-153 rounded them.
SignalRows(d, sym, stop, target) ==
    IF StopTooHigh(stop, d.close) THEN {[skip |-> "stop >= entry", rows |-> <<>>]}
    ELSE IF size_shares(d.close, stop, EQUITY, RISK_PCT, MAX_POS_PCT) < 1
    THEN {[skip |-> "<1 share", rows |-> <<>>]}
    ELSE { [skip |-> "buy",
            rows |-> << [symbol |-> sym, side |-> "BUY", entry |-> e,
                         stop |-> s2, target |-> t2,
                         shares |-> size_shares(d.close, stop, EQUITY,
                                                RISK_PCT, MAX_POS_PCT)] >>]
           : e \in Round2(d.close), s2 \in Round2(stop), t2 \in Round2(target) }

SignalOutcomes(d, sym) ==
    IF d.atr.nan \/ d.atr.v <= 0 THEN {[skip |-> "ATR invalid", rows |-> <<>>]}
    ELSE UNION { SignalRows(d, sym, stop, target)
                 : stop \in Round2(d.close - 2 * d.atr.v),
                   target \in Round2(d.close + 4 * d.atr.v) }

(* ----------------------- Trading_Script.py: main() -------------------- *)

ScanInit ==
    /\ spc = "scan"
    /\ universe \in 0..MaxUniverse
    /\ k = 0
    /\ df = NoFrame
    /\ skip = "none"
    /\ evald = <<>>
    /\ out_rows = <<>>
    /\ files = <<>>
    /\ RouterIdle
    /\ SizeIdle

\* for sym in universe: df = fetch_daily(sym)
Fetch ==
    /\ spc = "scan"
    /\ k < universe
    /\ \E d \in Frames : df' = d
    /\ k' = k + 1
    /\ skip' = "none"
    /\ evald' = <<>>
    /\ spc' = "fetched"
    /\ UNCHANGED <<universe, out_rows, files>>
    /\ UNCHANGED <<routerVars, sizeVars>>

\* Lines 133-176: the loop body on the fetched frame.
ScanSymbol ==
    /\ spc = "fetched"
    /\ LET q == Qualify(df)
       IN  /\ evald' = q.evald
           /\ IF q.skip # "none"
              THEN /\ skip' = q.skip
                   /\ out_rows' = out_rows
              ELSE \E o \in SignalOutcomes(df, k) :
                       /\ skip' = o.skip
                       /\ out_rows' = out_rows \o o.rows
    /\ df' = NoFrame
    /\ spc' = "scan"
    /\ UNCHANGED <<universe, k, files>>
    /\ UNCHANGED <<routerVars, sizeVars>>

\* Lines 179-187: both files get the rows (the header alone when none).
WriteOutputs ==
    /\ spc = "scan"
    /\ k = universe
    /\ files' = <<out_rows, out_rows>>
    /\ spc' = "written"
    /\ UNCHANGED <<universe, k, df, skip, evald, out_rows>>
    /\ UNCHANGED <<routerVars, sizeVars>>

ScanNext ==
    \/ Fetch
    \/ ScanSymbol
    \/ WriteOutputs

SpecScan == ScanInit /\ [][ScanNext]_vars

(* --------------------------- sizing functions ------------------------- *)

SizeInputs ==
    [ side : {"BUY", "SELL"},
      entry : {-1000, 0, 1000, 10000, 10004, 600000},
      stop : {-200, 0, 9000, 9900, 10000, 11000},
      equity : {-1000, 0, 100, 2000},
      risk : {0, 50, 100},
      cap : {1000, 2500} ]

SizeInit ==
    /\ sz_in \in SizeInputs
    /\ sz_out = [done |-> FALSE, shares |-> 0, why |-> "none", qty |-> 0]
    /\ RouterIdle
    /\ ScanIdle

\* size_shares(entry, stop), and lines 84-104 of the router's loop body on a
\* row with these numbers (a symbol, a take-profit, room for one more name).
RouterSizing(a) ==
    LET entry == Num(a.entry)
        stop  == Num(a.stop)
        why   == IF Incomplete("SYM", entry, stop, Num(1)) THEN "incomplete"
                 ELSE Sizing(a.side, entry, stop, a.equity, a.risk, a.cap)
    IN  [why |-> why,
         qty |-> IF why \in {"submit", "sized to 0"}
                 THEN RouterQty(per_share_risk(a.side, entry, stop), entry,
                                a.equity, a.risk, a.cap)
                 ELSE 0]

ApplySizing ==
    /\ ~sz_out.done
    /\ sz_out' = [done |-> TRUE,
                  shares |-> size_shares(sz_in.entry, sz_in.stop, sz_in.equity,
                                         sz_in.risk, sz_in.cap),
                  why |-> RouterSizing(sz_in).why,
                  qty |-> RouterSizing(sz_in).qty]
    /\ UNCHANGED sz_in
    /\ UNCHANGED <<routerVars, scanVars>>

SizeNext == ApplySizing

SpecSize == SizeInit /\ [][SizeNext]_vars

(* ============================== claims ================================ *)

\* The symbols of the orders placed so far.
PlacedSyms == { placed[j][1] : j \in 1..Len(placed) }

\* The loop body runs in this step.
BodyStep == pc = "row"

\* The body's answers that reject a row without talking to the broker.
Rejections == {"bad numeric", "incomplete", "invalid side", "shorting disabled",
               "already open", "max open names", "non-positive risk", "sized to 0"}

\* C1: at most MAX_OPEN_NAMES open names. The loop body never posts an order
\* while the open set holds MAX_OPEN_NAMES symbols or more; so the open set
\* never holds more than max(|initial open set|, MAX_OPEN_NAMES) symbols, and
\* a run places at most max(0, MAX_OPEN_NAMES - |initial open set|) orders.
C1_AtMostN ==
    /\ [](/\ Cardinality(open_syms) <= Max(Cardinality(init_open), MAX_OPEN_NAMES)
          /\ Len(placed) <= Max(0, MAX_OPEN_NAMES - Cardinality(init_open)))
    /\ [][(BodyStep /\ sent' # <<>>) => Cardinality(open_syms) < MAX_OPEN_NAMES]_vars

\* An order was placed, the open set is full, and a later valid row was
\* turned away for it.
C1_Witness ==
    /\ reason = "max open names"
    /\ Len(placed) >= 1
    /\ Cardinality(open_syms) = MAX_OPEN_NAMES
    /\ Len(placed) = MAX_OPEN_NAMES - Cardinality(init_open)

\* The row gives no side (a blank cell, or a row too short to have one).
SideMissing(r) == r.side \in {NONE, ""}
\* The row's side is BUY, given or by default, or a SELL that may trade.
SideTrades(r, allow) ==
    SideMissing(r) \/ r.side = "buy" \/ (r.side = "sell" /\ allow)

\* The row's fields other than its symbol pass every check before the
\* duplicate check: numbers above 0, a side the configuration lets trade.
OtherFieldsValid(r) ==
    /\ ParseFloat(r.entry).ok /\ ~ParseFloat(r.entry).nan /\ ParseFloat(r.entry).v > 0
    /\ ParseFloat(r.stop).ok /\ ~ParseFloat(r.stop).nan /\ ParseFloat(r.stop).v > 0
    /\ ParseFloat(r.target).ok /\ ~ParseFloat(r.target).nan /\ ParseFloat(r.target).v > 0

\* C2: duplicate-symbol suppression. A row whose symbol is in the open set is
\* never submitted, and with its other fields valid it is rejected as already
\* open; the open set is the broker's set plus the symbols placed in this run;
\* no symbol is placed twice, and none that was open at the start.
C2_NoDuplicates ==
    /\ [](/\ open_syms = init_open \cup PlacedSyms
          /\ Cardinality(PlacedSyms) = Len(placed)
          /\ PlacedSyms \cap init_open = {})
    /\ [][(BodyStep /\ SymOf(cur) \in open_syms) =>
            /\ sent' = <<>>
            /\ open_syms' = open_syms /\ placed' = placed
            /\ reason' \in Rejections
            /\ (OtherFieldsValid(cur) /\ SideTrades(cur, ALLOW_SHORTS))
                  => reason' = "already open" /\ pc' = "loop"]_vars

\* A row was rejected as already open for a symbol placed earlier in this
\* run (the broker had reported no position).
C2_Witness ==
    /\ reason = "already open"
    /\ init_open = {}
    /\ Len(placed) >= 1

\* C3, as stated: once the open-name count has reached MAX_OPEN_NAMES, every
\* later row is rejected with the capacity reason and no other, and none is
\* submitted.
C3_Original ==
    [][(BodyStep /\ Cardinality(open_syms) >= MAX_OPEN_NAMES) =>
          reason' = "max open names" /\ sent' = <<>>]_vars

\* The row passes the checks the body makes before the capacity check.
PassesEarlierChecks(r, open, allow) ==
    /\ \A s \in {r.entry, r.stop, r.target} :
          ParseFloat(s).ok /\ (ParseFloat(s).nan \/ ParseFloat(s).v > 0)
    /\ SymOf(r) # ""
    /\ SideTrades(r, allow)
    /\ SymOf(r) \notin open

\* C3, amended: once the open-name count has reached MAX_OPEN_NAMES no later
\* row is submitted and the open set and the placed list stay as they are; a
\* later row that fails the validation, the shorting or the duplicate check is
\* rejected with that check's reason and routing goes on; the first later row
\* that passes them is rejected with the capacity reason and routing stops:
\* the rows after it are not examined.
C3_Amended ==
    [][(BodyStep /\ Cardinality(open_syms) >= MAX_OPEN_NAMES) =>
          /\ sent' = <<>>
          /\ open_syms' = open_syms /\ placed' = placed
          /\ IF PassesEarlierChecks(cur, open_syms, ALLOW_SHORTS)
             THEN reason' = "max open names" /\ pc' = "done"
             ELSE /\ reason' \in {"bad numeric", "incomplete", "invalid side",
                                  "shorting disabled", "already open"}
                  /\ pc' = "loop"]_vars

\* Routing stopped on the capacity check after placing an order, with rows
\* of the file left unread.
C3_Witness ==
    /\ pc = "done"
    /\ reason = "max open names"
    /\ Len(placed) >= 1
    /\ i < nrows

\* C4: a failed submission is isolated. The body logs it, leaves the open
\* set and the placed list as they were, has posted the order once, and the
\* loop goes on with the next row.
C4_FailureIsolated ==
    [][(BodyStep /\ reason' = "order failed") =>
          /\ open_syms' = open_syms
          /\ placed' = placed
          /\ Len(sent') = 1
          /\ pc' = "loop"]_vars

\* A submission failed with rows still to come.
C4_Witness ==
    /\ reason = "order failed"
    /\ pc = "loop"
    /\ i < nrows

\* The effects of a rejection at the validation checks.
RejectedAtValidation ==
    /\ sent' = <<>>
    /\ open_syms' = open_syms /\ placed' = placed
    /\ reason' \in {"bad numeric", "incomplete", "invalid side"}
    /\ pc' = "loop"

NotANumber(s) == ~ParseFloat(s).ok
NonPositive(s) == ParseFloat(s).ok /\ ~ParseFloat(s).nan /\ ParseFloat(s).v <= 0
BadPrices(r) ==
    \E s \in {r.entry, r.stop, r.target} : NotANumber(s) \/ NonPositive(s)
BlankSymbol(r) == r.symbol \in {NONE, "", " "}

C6_RecordInvariant ==
    \A j \in 1..Len(out_rows) :
        LET row == out_rows[j]
        IN  /\ row.side = "BUY"
            /\ row.stop < row.entry /\ row.entry < row.target
            /\ row.entry > 0 /\ row.stop > 0 /\ row.target > 0
            /\ row.shares >= 1

\* q = floor(min(risk/dist, cap/entry)), not below 0, for dist > 0 and
\* entry > 0: 0 when a budget is negative, else the largest whole number of
\* shares whose risk and whose cost are both within budget.
IsDualCap(q, entry, dist, eq, riskBp, maxPosBp) ==
    LET a == riskBp * eq
        b == 10 * dist
        c == maxPosBp * eq
        d == 10 * entry
    IN  IF a < 0 \/ c < 0 THEN q = 0
        ELSE /\ q >= 0
             /\ q * b <= a /\ q * d <= c
             /\ (q + 1) * b > a \/ (q + 1) * d > c

\* C7: dual-cap sizing. size_shares and the router's sizing both return
\* floor(min(risk_fraction*equity/risk_distance, max_position_fraction*equity/entry)),
\* not below 0; 0 when stop >= entry on a BUY; and the router submits only a
\* quantity >= 1, whose risk and whose cost are within the two budgets.
C7_DualCap ==
    sz_out.done =>
        LET a    == sz_in
            dist == IF a.side = "BUY" THEN a.entry - a.stop ELSE a.stop - a.entry
        IN  /\ sz_out.shares >= 0 /\ sz_out.qty >= 0
            /\ (a.entry > 0 /\ a.stop < a.entry) =>
                   IsDualCap(sz_out.shares, a.entry, a.entry - a.stop, a.equity,
                             a.risk, a.cap)
            /\ a.stop >= a.entry => sz_out.shares = 0
            /\ (a.side = "BUY" /\ a.stop >= a.entry) =>
                   sz_out.why # "submit" /\ sz_out.qty = 0
            /\ (a.entry > 0 /\ a.stop > 0 /\ dist > 0) =>
                   /\ sz_out.why \in {"submit", "sized to 0"}
                   /\ IsDualCap(sz_out.qty, a.entry, dist, a.equity, a.risk, a.cap)
            /\ (sz_out.why = "submit") = (sz_out.qty >= 1)
            /\ sz_out.why = "submit" =>
                   /\ 10 * sz_out.qty * dist <= a.risk * a.equity
                   /\ 10 * sz_out.qty * a.entry <= a.cap * a.equity

\* Entry 10.00, stop 9.90, equity 2000, 0.5% risk, 10% cap: 100 shares by
\* risk, 20 by value; both sizings answer 20.
C7_Witness ==
    /\ sz_out.done
    /\ sz_in = [side |-> "BUY", entry |-> 10000, stop |-> 9900, equity |-> 2000,
                risk |-> 50, cap |-> 1000]
    /\ sz_out.why = "submit"
    /\ sz_out.qty = 20 /\ sz_out.shares = 20

\* C8: with the API key or the secret missing the run ends in the fatal
\* exit (status 1) and makes no broker call: no account query, no positions
\* query, no order.
C8_NoCredsNoTraffic ==
    (ALPACA_KEY = "" \/ ALPACA_SECRET = "") =>
        /\ broker_calls = {}
        /\ sent = <<>> /\ placed = <<>>
        /\ pc \in {"start", "fatal"}

\* The key is set, the secret is not, a signal file with rows exists, and
\* the run has ended in the fatal exit.
C8_Witness ==
    /\ pc = "fatal"
    /\ ALPACA_KEY # "" /\ ALPACA_SECRET = ""
    /\ csv_exists /\ nrows > 0

\* C9: with shorting disabled, a SELL row with valid other fields is skipped
\* as "shorting disabled": no order, the open set and the placed list
\* unchanged, and the loop goes on, whether or not its symbol is open and
\* whether or not the open set is full.
C9_ShortSkipped ==
    [][(BodyStep /\ cur.side = "sell" /\ ~ALLOW_SHORTS
          /\ OtherFieldsValid(cur) /\ SymOf(cur) # "") =>
          /\ reason' = "shorting disabled"
          /\ sent' = <<>>
          /\ open_syms' = open_syms /\ placed' = placed
          /\ pc' = "loop"]_vars

\* A SELL row was skipped while the open set was full and held every symbol
\* a row can name.
C9_Witness ==
    /\ reason = "shorting disabled"
    /\ pc = "loop"
    /\ Cardinality(open_syms) >= MAX_OPEN_NAMES
    /\ {"AA", "BB"} \subseteq open_syms

\* Whether a stage passes on a frame.
StagePasses(stage, d) ==
    CASE stage = "history"   -> d.present /\ d.n >= 60
      [] stage = "liquidity" -> passes_liquidity(d)
      [] stage = "gap"       -> gap_spike_ok(d)
      [] stage = "breakout"  -> breakout_signal(d)
StageReason(stage) ==
    CASE stage = "history"   -> "insufficient data"
      [] stage = "liquidity" -> "liquidity"
      [] stage = "gap"       -> "gap"
      [] stage = "breakout"  -> "no breakout"
Stages == <<"history", "liquidity", "gap", "breakout">>

\* C10: the stages are evaluated in the order history, liquidity, gap,
\* breakout, each only if the earlier ones passed; a symbol that fails a stage
\* is reported with that stage's reason and the scan goes on; a frame that is
\* absent or shorter than 60 bars is rejected as insufficient data whatever
\* else it holds; a row is emitted only for a frame that passed all four.
C10_Pipeline ==
    [][(spc = "fetched") =>
          /\ Len(evald') \in 1..4
          /\ \A j \in 1..Len(evald') :
                /\ evald'[j] = Stages[j]
                /\ j < Len(evald') => StagePasses(Stages[j], df)
          /\ LET last == Stages[Len(evald')]
             IN  IF StagePasses(last, df)
                 THEN Len(evald') = 4 /\ skip' \notin {"insufficient data", "liquidity",
                                                       "gap", "no breakout"}
                 ELSE skip' = StageReason(last) /\ out_rows' = out_rows
          /\ (~df.present \/ df.n < 60) =>
                skip' = "insufficient data" /\ evald' = <<"history">>
          /\ Len(out_rows') > Len(out_rows) =>
                \A j \in 1..4 : StagePasses(Stages[j], df)
          /\ spc' = "scan"]_vars

\* A symbol was rejected at the gap stage, after history and liquidity had
\* passed and before the breakout stage was looked at, with symbols to come.
C10_Witness ==
    /\ skip = "gap"
    /\ evald = <<"history", "liquidity", "gap">>
    /\ spc = "scan"
    /\ k < universe

====
